---- MODULE Spec2Model ----
(***************************************************************************)
(* bettercmd: the command registry (alias / option / command decorators)   *)
(* and the interpreter's feed / run loop of src/bettercmd/__init__.py.     *)
(*                                                                         *)
(* Text is modelled as sequences of one-character strings, so that         *)
(* slicing and tokenising are computed as the code computes them.          *)
(***************************************************************************)
EXTENDS Naturals, Sequences, FiniteSets

\* ---------------------------------------------------------------- bounds
MaxCommands == 2     \* Command objects created by command(...)
MaxOptions == 2      \* option(...) declarations per handler
MaxLineLen == 3      \* characters of a line typed at the prompt
MaxSetup == 2        \* registration calls made before run() (specification Spec)

\* ------------------------------------------------------------- universes
\* Handler functions, identified by their __name__.
Handlers == {"f", "g"}

\* func.__name__ as text.
FuncName(func) == <<func>>

\* The command names that registration can produce.
Names == {<<"f">>, <<"g">>, <<"q">>}

\* Python's None where a Command is expected (Command objects are numbered from 1).
None == 0

\* Python's None where a parser is expected (a parser is named by the handler
\* whose _parsers entry it is: that entry is created once and never replaced).
NoParser == "None"

\* The argument tuples of alias(*names) that are tried: no name, a fresh name,
\* and the name of handler f.
AliasArgs == {<<>>, <<<<"q">>>>, <<<<"f">>>>}

Range(s) == {s[i] : i \in DOMAIN s}

\* The characters of a line: a letter, the blank and the double quote.
Chars == {"f", " ", "\""}

\* The lines the prompt can return.
Lines == UNION {[1..n -> Chars] : n \in 0..MaxLineLen}

VARIABLES
    commands,       \* BetterCmd.commands: name -> Command (object number)
    cmds,           \* the Command objects created so far: [parent, func, parser]
    _all_aliases,   \* BetterCmd._all_aliases
    _aliases,       \* BetterCmd._aliases: func -> list of names
    _parsers,       \* BetterCmd._parsers: func -> parser object
    running,        \* BetterCmd.running
    pc,             \* "stopped" / "returned" / "raised" outside run(), else the place in run()
    exc,            \* the exception the last call raised ("none" when it returned)
    ret,            \* what the last command(...) or feed(...) call returned
    command_line,   \* run()'s local `command`: the line, then before_command's result
    log,            \* the calls made during the current iteration of run(), in order
    written,        \* (stream, text) pairs written during the current feed
    after_loop_calls, \* invocations of after_loop during the current run()
    commandCalls,   \* history: how often command(func) was applied to each handler
    budget          \* registration calls still allowed before run() (used by Spec only)

\* The registry and what registration reports.
regvars == <<commands, cmds, _all_aliases, _aliases, _parsers, exc, ret, commandCalls>>

\* The interpreter's loop.
loopvars == <<running, pc, command_line, log, written, after_loop_calls>>

vars == <<regvars, loopvars, budget>>

\* dict.get(key, default)
Get(d, key, default) == IF key \in DOMAIN d THEN d[key] ELSE default

\* d[key] = value
Put(d, key, value) == [k \in DOMAIN d \cup {key} |-> IF k = key THEN value ELSE d[k]]

\* for name in aliases: self.commands[name] = cmd
Register(d, aliases, cmd) ==
    [k \in DOMAIN d \cup Range(aliases) |-> IF k \in Range(aliases) THEN cmd ELSE d[k]]

Init ==
    /\ commands = <<>>
    /\ cmds = <<>>
    /\ _all_aliases = {}
    /\ _aliases = <<>>
    /\ _parsers = <<>>
    /\ running = FALSE
    /\ pc = "stopped"
    /\ exc = "none"
    /\ ret = None
    /\ command_line = <<>>
    /\ log = <<>>
    /\ written = {}
    /\ after_loop_calls = 0
    /\ commandCalls = [h \in Handlers |-> 0]
    /\ budget = MaxSetup

\* The interpreter is inside run().
InRun == pc \in {"loop", "prompted", "before", "fed", "after"}

\* ------------------------------------------------------------ registration
\* The insert made only where the handler's list does not hold its own name
\* yet.
AliasNamesOwnOnce(names, add_function, func) ==
    IF add_function /\ FuncName(func) \notin Range(Get(_aliases, func, <<>>))
    THEN <<FuncName(func)>> \o names ELSE names

\* The names list of alias.inner after the optional insert of func.__name__.
AliasNames(names, add_function, func) ==
    IF add_function THEN <<FuncName(func)>> \o names ELSE names

\* duplicates = self._all_aliases.intersection(names)
Duplicates(names) == _all_aliases \cap Range(names)

\* alias.inner with the duplicate check made after the names were committed.
aliasCommitFirst(names, add_function, func) ==
    /\ ~InRun
    /\ LET ns == AliasNames(names, add_function, func)
       IN  /\ _aliases' = Put(_aliases, func, Get(_aliases, func, <<>>) \o ns)
           /\ _all_aliases' = _all_aliases \cup Range(ns)
           /\ exc' = IF Duplicates(ns) # {} THEN "DuplicateNameError" ELSE "none"
    /\ ret' = None
    /\ UNCHANGED <<commands, cmds, _parsers, commandCalls, loopvars>>

\* alias(*names, add_function=add_function)(func)
alias(names, add_function, func) ==
    /\ ~InRun
    /\ LET ns == AliasNames(names, add_function, func)
       IN  IF Duplicates(ns) # {}
           THEN /\ exc' = "DuplicateNameError"
                /\ UNCHANGED <<_aliases, _all_aliases>>
           ELSE /\ _aliases' = Put(_aliases, func, Get(_aliases, func, <<>>) \o ns)
                /\ _all_aliases' = _all_aliases \cup Range(ns)
                /\ exc' = "none"
    /\ ret' = None
    /\ UNCHANGED <<commands, cmds, _parsers, commandCalls, loopvars>>

\* alias(*names, add_function=add_function)(cmd), the decorator applied to the
\* Command that command returned instead of to a function. A BetterCmdCommand
\* has the attributes parent, func and parser and no __name__, so the insert
\* of func.__name__ raises AttributeError; without it the duplicate check runs
\* first, and then self._aliases.get(func, []) has to hash the Command, which
\* raises TypeError: the class is declared with a bare @attrs, whose
\* generated __eq__ leaves it without a usable __hash__. Every one of these
\* exceptions is raised before anything is stored.
aliasCommand(names, add_function, cmd) ==
    /\ ~InRun
    /\ cmd \in DOMAIN cmds
    /\ exc' = IF add_function THEN "AttributeError"
              ELSE IF Duplicates(names) # {} THEN "DuplicateNameError"
              ELSE "TypeError"
    /\ ret' = None
    /\ UNCHANGED <<commands, cmds, _all_aliases, _aliases, _parsers, commandCalls, loopvars>>

\* create_parser(): a fresh parser holds argparse's built-in help action (0);
\* BetterCmdArgumentParser.__init__ sets command = None.
create_parser == [actions |-> <<0>>, command |-> None, prog |-> <<>>]

\* list.remove(x): drop the first occurrence of x.
Remove(s, x) ==
    LET i == CHOOSE j \in DOMAIN s : s[j] = x /\ \A k \in 1..(j - 1) : s[k] # x
    IN  SubSeq(s, 1, i - 1) \o SubSeq(s, i + 1, Len(s))

\* list.insert(index, x), index counted from 0.
Insert(s, index, x) == SubSeq(s, 1, index) \o <<x>> \o SubSeq(s, index + 1, Len(s))

\* option.inner without the shuffle: add_argument alone.
AddOptionAppend(actions, action) == Append(actions, action)

\* parser._actions after option.inner: add_argument appends the new action, and
\* from the second declared option on it is moved to index 1.
AddOption(actions, action) ==
    LET added == Append(actions, action)
    IN  IF Len(added) >= 3 THEN Insert(Remove(added, action), 1, action) ELSE added

\* option(...)(func); the k-th option declared for a handler is action k.
option(func) ==
    /\ ~InRun
    /\ LET parser == Get(_parsers, func, create_parser)
       IN  /\ Len(parser.actions) <= MaxOptions
           /\ _parsers' = Put(_parsers, func,
                  [parser EXCEPT !.actions = AddOption(parser.actions, Len(parser.actions))])
    /\ exc' = "none"
    /\ ret' = None
    /\ UNCHANGED <<commands, cmds, _all_aliases, _aliases, commandCalls, loopvars>>

\* command(func) with the Command built inside the loop over the names: one
\* object per name.
commandPerName(func) ==
    /\ ~InRun
    /\ LET aliases == Get(_aliases, func, <<FuncName(func)>>)
           parser == IF func \in DOMAIN _parsers THEN func ELSE NoParser
           n == Len(cmds)
       IN  /\ n + Len(aliases) <= MaxCommands
           /\ cmds' = cmds \o [i \in 1..Len(aliases) |->
                                 [parent |-> "self", func |-> func, parser |-> parser]]
           /\ commands' = [k \in DOMAIN commands \cup Range(aliases) |->
                              IF k \in Range(aliases)
                              THEN n + (CHOOSE i \in DOMAIN aliases : aliases[i] = k)
                              ELSE commands[k]]
           /\ ret' = IF aliases = <<>> THEN None ELSE n + Len(aliases)
    /\ exc' = "none"
    /\ commandCalls' = [commandCalls EXCEPT ![func] = @ + 1]
    /\ UNCHANGED <<_all_aliases, _aliases, _parsers, loopvars>>

\* The body of command(func): what it leaves in the registry, and what it
\* raises or returns. `cmd.parser.prog = aliases[0]` raises IndexError for an
\* empty alias list, after the Command was built and parser.command set.
CommandCall(func) ==
    LET aliases == Get(_aliases, func, <<FuncName(func)>>)
        parser == IF func \in DOMAIN _parsers THEN func ELSE NoParser
        cmd == Len(cmds) + 1
        failed == parser # NoParser /\ aliases = <<>>
    IN  [cmds |-> Append(cmds, [parent |-> "self", func |-> func, parser |-> parser]),
         _parsers |-> IF parser = NoParser THEN _parsers
                      ELSE IF failed THEN [_parsers EXCEPT ![func].command = cmd]
                      ELSE [_parsers EXCEPT ![func].command = cmd, ![func].prog = aliases[1]],
         commands |-> IF failed THEN commands ELSE Register(commands, aliases, cmd),
         raises |-> IF failed THEN "IndexError" ELSE "none",
         returns |-> IF failed THEN None ELSE cmd]

\* command(func)
command(func) ==
    /\ ~InRun
    /\ Len(cmds) < MaxCommands
    /\ LET call == CommandCall(func)
       IN  /\ cmds' = call.cmds
           /\ _parsers' = call._parsers
           /\ commands' = call.commands
           /\ exc' = call.raises
           /\ ret' = call.returns
    /\ commandCalls' = [commandCalls EXCEPT ![func] = @ + 1]
    /\ UNCHANGED <<_all_aliases, _aliases, loopvars>>

\* ------------------------------------------------------------------ split
\* shlex.split(line) in POSIX mode over Chars, reading from position i:
\* state "ws" between tokens, "word" inside a token, "quote" inside double
\* quotes; quoted records that the token had a quoted part, so that "" yields
\* an empty token. The result is [ok, tokens]; ok is FALSE where shlex raises
\* ValueError (no closing quotation).
RECURSIVE Shlex(_, _, _, _, _, _)
Shlex(line, i, state, token, quoted, out) ==
    IF i > Len(line)
    THEN IF state = "quote" THEN [ok |-> FALSE, tokens |-> <<>>]
         ELSE IF state = "word" /\ (token # <<>> \/ quoted)
              THEN [ok |-> TRUE, tokens |-> Append(out, token)]
              ELSE [ok |-> TRUE, tokens |-> out]
    ELSE LET c == line[i]
         IN  IF state = "ws"
             THEN IF c = " " THEN Shlex(line, i + 1, "ws", <<>>, FALSE, out)
                  ELSE IF c = "\"" THEN Shlex(line, i + 1, "quote", <<>>, TRUE, out)
                  ELSE Shlex(line, i + 1, "word", <<c>>, FALSE, out)
             ELSE IF state = "quote"
             THEN IF c = "\"" THEN Shlex(line, i + 1, "word", token, quoted, out)
                  ELSE Shlex(line, i + 1, "quote", Append(token, c), quoted, out)
             ELSE IF c = " "
                  THEN Shlex(line, i + 1, "ws", <<>>, FALSE,
                             IF token # <<>> \/ quoted THEN Append(out, token) ELSE out)
                  ELSE IF c = "\"" THEN Shlex(line, i + 1, "quote", token, TRUE, out)
                  ELSE Shlex(line, i + 1, "word", Append(token, c), quoted, out)

\* str.split(): the maximal runs of non-blank characters, from position i.
RECURSIVE StrSplit(_, _, _, _)
StrSplit(line, i, token, out) ==
    IF i > Len(line) THEN (IF token # <<>> THEN Append(out, token) ELSE out)
    ELSE IF line[i] = " "
         THEN StrSplit(line, i + 1, <<>>, IF token # <<>> THEN Append(out, token) ELSE out)
         ELSE StrSplit(line, i + 1, Append(token, line[i]), out)

\* BetterCmd.split(line): shlex.split, and str.split where that raises ValueError.
split(line) ==
    LET r == Shlex(line, 1, "ws", <<>>, FALSE, <<>>)
    IN  IF r.ok THEN r.tokens ELSE StrSplit(line, 1, <<>>, <<>>)

\* s[start:], start counted from 0.
SliceFrom(s, start) == SubSeq(s, start + 1, Len(s))

\* args_string = command[len(command_name) + 1:]
ArgsString(text, command_name) == SliceFrom(text, Len(command_name) + 1)

\* `if not command` (text is the command line): only the empty string is false.
Not(text) == text = <<>>

\* ----------------------------------------------------------- parser adapter
\* What a file argument of None stands for in _print_message.
NoFile == "None"

\* BetterCmdArgumentParser._print_message(message, file): the (stream, text)
\* pair written. self.command.parent.stdout is the interpreter's stream.
PrintMessage(message, file) ==
    IF file = NoFile THEN <<"self.stdout", message>> ELSE <<file, message>>

\* BetterCmdArgumentParser.exit(status, message): what it writes; it then
\* raises CommandExit whatever the status.
ExitWrites(message) == IF message # "" THEN {PrintMessage(message, NoFile)} ELSE {}

\* What the exit method raises.
ExitRaises == "CommandExit"

\* The outcomes of parser.parse_args on a token list. Which of them a token
\* list produces is the argument-parsing library's business; what each one
\* writes, and where, follows from the inherited ArgumentParser methods calling
\* the two overridden ones: the help action runs print_help() (which passes
\* sys.stdout as file) and then exit(); error(message) runs
\* print_usage(sys.stderr) and then exit(2, message).
ParseOutcomes == {"parsed", "help", "error"}

ParseWrites(outcome) ==
    IF outcome = "help" THEN {PrintMessage("help", "sys.stdout")} \cup ExitWrites("")
    ELSE IF outcome = "error"
         THEN {PrintMessage("usage", "sys.stderr")} \cup ExitWrites("error")
         ELSE {}

ParseRaises(outcome) == IF outcome = "parsed" THEN "none" ELSE ExitRaises

\* The entry of the record of calls for a call that raised.
Raised(signal) == IF signal = "none" THEN <<>> ELSE <<<<"raises", signal>>>>

\* BetterCmdCommand.__call__(args_string, args_list) of Command cmd, given the
\* outcome of parsing and what the handler function does (signal: what it
\* raises). The result: the calls made (with what the last of them raised, if
\* anything), what was written, what was raised.
Call(cmd, args_string, args_list, parse, signal) ==
    LET parsed == IF cmds[cmd].parser = NoParser THEN "parsed" ELSE parse
        invoked == <<"command", cmd, args_string, args_list>>
    IN  IF ParseRaises(parsed) # "none"
        THEN [calls |-> <<invoked>> \o Raised(ParseRaises(parsed)),
              writes |-> ParseWrites(parsed),
              raises |-> ParseRaises(parsed)]
        ELSE [calls |-> <<invoked, <<"func", cmds[cmd].func, args_string, args_list>>>>
                            \o Raised(signal),
              writes |-> {}, raises |-> signal]

\* ------------------------------------------------------------------- feed
\* What a handler function can raise, and what a hook can.
HandlerSignals == {"none", "CommandExit", "Error"}
HookSignals == {"none", "Error"}

\* The try without its except clause.
CatchNothing(signal) == signal

\* try: cmd(...) except CommandExit: pass -- the exception that leaves the try.
Catch(signal) == IF signal = "CommandExit" THEN "none" ELSE signal

\* A lookup that also accepts a registered name the typed name starts with.
LookupPrefix(command_name) ==
    IF command_name \in DOMAIN commands THEN commands[command_name]
    ELSE IF \E k \in DOMAIN commands : Len(k) <= Len(command_name)
                                       /\ SubSeq(command_name, 1, Len(k)) = k
         THEN commands[CHOOSE k \in DOMAIN commands :
                           Len(k) <= Len(command_name) /\ SubSeq(command_name, 1, Len(k)) = k]
         ELSE None

\* self.commands.get(command_name, None)
Lookup(command_name) == Get(commands, command_name, None)

\* feed(command) for the command line text, given what the code it calls does: parse is the outcome of
\* the parser (if any), signal what the hook or handler raises. The result:
\* the calls made, what was written, the exception raised and the value
\* returned (None when it raised).
feed(text, parse, signal) ==
    IF Not(text)
    THEN [calls |-> <<<<"empty_command">>>> \o Raised(signal), writes |-> {},
          raises |-> signal, returns |-> None]
    ELSE LET parts == split(text)
         IN  IF parts = <<>>
             THEN \* parts[0] raises IndexError
                  [calls |-> <<>>, writes |-> {}, raises |-> "IndexError", returns |-> None]
             ELSE LET command_name == parts[1]
                      args_string == ArgsString(text, command_name)
                      args_list == Tail(parts)
                      cmd == Lookup(command_name)
                  IN  IF cmd = None
                      THEN [calls |-> <<<<"default", command_name, args_string, args_list>>>>
                                          \o Raised(signal),
                            writes |-> {}, raises |-> signal, returns |-> None]
                      ELSE LET r == Call(cmd, args_string, args_list, parse, signal)
                           IN  [calls |-> r.calls, writes |-> r.writes,
                                raises |-> Catch(r.raises),
                                returns |-> IF Catch(r.raises) = "none" THEN cmd ELSE None]

\* ---------------------------------------------------------------- run loop
\* What before_command returns: the line itself (the default hook), or, in a
\* subclass that overrides it to tidy the input, the line without its last
\* character when that is a blank.
BeforeResults(line) ==
    {line} \cup (IF line # <<>> /\ line[Len(line)] = " "
                 THEN {SubSeq(line, 1, Len(line) - 1)} ELSE {})

\* `while True`
LoopForever == TRUE

\* `while self.running`
LoopCondition == running

\* run(): self.running = True, and on to the loop's test. The registration
\* phase is over.
run ==
    /\ ~InRun
    /\ running' = TRUE
    /\ pc' = "loop"
    /\ exc' = "none"
    /\ ret' = None
    /\ command_line' = <<>>
    /\ log' = <<>>
    /\ written' = {}
    /\ after_loop_calls' = 0
    /\ budget' = 0
    /\ UNCHANGED <<commands, cmds, _all_aliases, _aliases, _parsers, commandCalls>>

\* The loop's test succeeds and get_prompt() returns a line.
get_prompt(line) ==
    /\ pc = "loop"
    /\ LoopCondition
    /\ log' = <<<<"get_prompt", line>>>>
    /\ written' = {}
    /\ ret' = None
    /\ command_line' = line
    /\ pc' = "prompted"
    /\ exc' = "none"
    /\ UNCHANGED <<commands, cmds, _all_aliases, _aliases, _parsers, commandCalls, budget,
                   running, after_loop_calls>>

\* The loop's test succeeds and get_prompt() raises (end of input, an interrupt).
get_prompt_raises ==
    /\ pc = "loop"
    /\ LoopCondition
    /\ log' = <<<<"get_prompt">>, <<"raises", "EOFError">>>>
    /\ written' = {}
    /\ ret' = None
    /\ command_line' = <<>>
    /\ pc' = "raised"
    /\ exc' = "EOFError"
    /\ UNCHANGED <<commands, cmds, _all_aliases, _aliases, _parsers, commandCalls, budget,
                   running, after_loop_calls>>

\* The loop's test fails: run() returns. Nothing in run() calls after_loop.
run_return ==
    /\ pc = "loop"
    /\ ~LoopCondition
    /\ pc' = "returned"
    /\ UNCHANGED <<regvars, budget, running, command_line, log, written, after_loop_calls>>

\* self.before_command(command) with its result thrown away: feed gets the
\* line as typed.
before_commandDiscarded(result, stop, signal) ==
    /\ pc = "prompted"
    /\ log' = Append(log, <<"before_command", command_line, result>>) \o Raised(signal)
    /\ running' = IF stop THEN FALSE ELSE running
    /\ command_line' = command_line
    /\ IF signal = "none"
       THEN pc' = "before" /\ exc' = "none"
       ELSE pc' = "raised" /\ exc' = signal
    /\ UNCHANGED <<commands, cmds, _all_aliases, _aliases, _parsers, commandCalls, budget,
                   ret, written, after_loop_calls>>

\* command = self.before_command(command); the hook may clear running or raise.
before_command(result, stop, signal) ==
    /\ pc = "prompted"
    /\ log' = Append(log, <<"before_command", command_line, result>>) \o Raised(signal)
    /\ running' = IF stop THEN FALSE ELSE running
    /\ IF signal = "none"
       THEN command_line' = result /\ pc' = "before" /\ exc' = "none"
       ELSE command_line' = command_line /\ pc' = "raised" /\ exc' = signal
    /\ UNCHANGED <<commands, cmds, _all_aliases, _aliases, _parsers, commandCalls, budget,
                   ret, written, after_loop_calls>>

\* The inputs of a feed that matter: a parse outcome other than "parsed" only
\* where a Command with a parser is invoked, CommandExit only from a handler,
\* and an effect (stop, signal) only from code that is reached.
Reached(text, parse, stop, signal) ==
    LET parts == split(text)
        cmd == IF parts = <<>> THEN None ELSE Lookup(parts[1])
    IN  IF ~Not(text) /\ parts = <<>>
        THEN parse = "parsed" /\ ~stop /\ signal = "none"
        ELSE IF cmd = None
             THEN parse = "parsed" /\ signal \in HookSignals
             ELSE IF cmds[cmd].parser = NoParser THEN parse = "parsed"
                  ELSE parse # "parsed" => (~stop /\ signal = "none")

\* run() with the call of feed wrapped in try/except Exception: whatever feed
\* raises is dropped and the iteration goes on to after_command.
run_feedCatching(parse, stop, signal) ==
    /\ pc = "before"
    /\ Reached(command_line, parse, stop, signal)
    /\ LET r == feed(command_line, parse, signal)
       IN  /\ log' = Append(log, <<"feed", command_line>>) \o r.calls
           /\ written' = r.writes
           /\ running' = IF stop THEN FALSE ELSE running
           /\ exc' = "none"
           /\ ret' = r.returns
           /\ pc' = "fed"
    /\ UNCHANGED <<commands, cmds, _all_aliases, _aliases, _parsers, commandCalls, budget,
                   command_line, after_loop_calls>>

\* cmd = self.feed(command); the hook or handler that feed calls may clear
\* running.
run_feed(parse, stop, signal) ==
    /\ pc = "before"
    /\ Reached(command_line, parse, stop, signal)
    /\ LET r == feed(command_line, parse, signal)
       IN  /\ log' = Append(log, <<"feed", command_line>>) \o r.calls
           /\ written' = r.writes
           /\ running' = IF stop THEN FALSE ELSE running
           /\ exc' = r.raises
           /\ ret' = r.returns
           /\ pc' = IF r.raises = "none" THEN "fed" ELSE "raised"
    /\ UNCHANGED <<commands, cmds, _all_aliases, _aliases, _parsers, commandCalls, budget,
                   command_line, after_loop_calls>>

\* A handler that calls self.command(reg) is reached by a registered name
\* whose arguments parse; a handler whose self.command call raises raises
\* that exception and nothing else.
Registers(text, parse, signal, reg) ==
    LET parts == split(text)
    IN  /\ parts # <<>>
        /\ Lookup(parts[1]) # None
        /\ cmds[Lookup(parts[1])].parser = NoParser \/ parse = "parsed"
        /\ Len(cmds) < MaxCommands
        /\ CommandCall(reg).raises # "none" => signal = "none"

\* What such a handler raises: the exception of its self.command call, if
\* that raised.
HandlerRaises(signal, reg) ==
    IF CommandCall(reg).raises # "none" THEN CommandCall(reg).raises ELSE signal

\* The calls of a feed whose handler registered: the handler's self.command
\* call follows the entry of the handler.
WithRegistration(calls, reg) ==
    SubSeq(calls, 1, 2) \o <<<<"self.command", reg, CommandCall(reg).returns>>>>
        \o SubSeq(calls, 3, Len(calls))

\* feed ending with `return self.commands.get(command_name)`: the name is
\* looked up again after the handler ran.
run_feed_registeringLookupAgain(parse, stop, signal, reg) ==
    /\ pc = "before"
    /\ Reached(command_line, parse, stop, signal)
    /\ Registers(command_line, parse, signal, reg)
    /\ LET r == feed(command_line, parse, HandlerRaises(signal, reg))
       IN  /\ log' = Append(log, <<"feed", command_line>>) \o WithRegistration(r.calls, reg)
           /\ written' = r.writes
           /\ running' = IF stop THEN FALSE ELSE running
           /\ exc' = r.raises
           /\ ret' = IF r.returns = None THEN None
                     ELSE Get(CommandCall(reg).commands, split(command_line)[1], None)
           /\ pc' = IF r.raises = "none" THEN "fed" ELSE "raised"
    /\ commands' = CommandCall(reg).commands
    /\ cmds' = CommandCall(reg).cmds
    /\ _parsers' = CommandCall(reg)._parsers
    /\ commandCalls' = [commandCalls EXCEPT ![reg] = @ + 1]
    /\ UNCHANGED <<_all_aliases, _aliases, budget, command_line, after_loop_calls>>

\* cmd = self.feed(command) where the handler that feed invokes calls
\* self.command(reg): a registration made while the loop is running.
run_feed_registering(parse, stop, signal, reg) ==
    /\ pc = "before"
    /\ Reached(command_line, parse, stop, signal)
    /\ Registers(command_line, parse, signal, reg)
    /\ LET r == feed(command_line, parse, HandlerRaises(signal, reg))
       IN  /\ log' = Append(log, <<"feed", command_line>>) \o WithRegistration(r.calls, reg)
           /\ written' = r.writes
           /\ running' = IF stop THEN FALSE ELSE running
           /\ exc' = r.raises
           /\ ret' = r.returns
           /\ pc' = IF r.raises = "none" THEN "fed" ELSE "raised"
    /\ commands' = CommandCall(reg).commands
    /\ cmds' = CommandCall(reg).cmds
    /\ _parsers' = CommandCall(reg)._parsers
    /\ commandCalls' = [commandCalls EXCEPT ![reg] = @ + 1]
    /\ UNCHANGED <<_all_aliases, _aliases, budget, command_line, after_loop_calls>>

\* self.after_command(cmd); the hook may clear running or raise.
after_command(stop, signal) ==
    /\ pc = "fed"
    /\ log' = Append(log, <<"after_command", ret>>) \o Raised(signal)
    /\ running' = IF stop THEN FALSE ELSE running
    /\ IF signal = "none"
       THEN pc' = "after" /\ exc' = "none"
       ELSE pc' = "raised" /\ exc' = signal
    /\ UNCHANGED <<commands, cmds, _all_aliases, _aliases, _parsers, commandCalls, budget,
                   ret, command_line, written, after_loop_calls>>

\* The end of the loop's body: back to the test. The locals of the iteration
\* are dead from here on (the next iteration assigns them before reading), and
\* the record of the iteration's calls ends with the iteration.
loop_again ==
    /\ pc = "after"
    /\ pc' = "loop"
    /\ command_line' = <<>>
    /\ ret' = None
    /\ log' = <<>>
    /\ written' = {}
    /\ UNCHANGED <<commands, cmds, _all_aliases, _aliases, _parsers, commandCalls, budget,
                   running, exc, after_loop_calls>>

\* ---------------------------------------------------------- specifications
\* The Command a decorator written above @command is applied to: the one the
\* command call just before it returned.
Returned == {ret} \cap DOMAIN cmds

\* The registration API alone: every sequence of alias, option and command
\* calls on a fresh interpreter.
NextRegistry ==
    \/ \E names \in AliasArgs, add_function \in BOOLEAN, func \in Handlers :
           alias(names, add_function, func) /\ UNCHANGED budget
    \/ \E names \in AliasArgs, add_function \in BOOLEAN, cmd \in Returned :
           aliasCommand(names, add_function, cmd) /\ UNCHANGED budget
    \/ \E func \in Handlers : option(func) /\ UNCHANGED budget
    \/ \E func \in Handlers : command(func) /\ UNCHANGED budget

SpecRegistry == Init /\ [][NextRegistry]_vars

\* The alias decorator alone: every sequence of alias applications to the
\* handlers of a fresh interpreter.
NextAlias ==
    \E names \in AliasArgs, add_function \in BOOLEAN, func \in Handlers :
        alias(names, add_function, func) /\ UNCHANGED budget

SpecAlias == Init /\ [][NextAlias]_vars

\* One of the registration calls an application makes before it first calls
\* run().
Budgeted == pc = "stopped" /\ budget > 0 /\ budget' = budget - 1

\* The interpreter: a few registration calls, and the loop.
Next ==
    \/ \E names \in AliasArgs, add_function \in BOOLEAN, func \in Handlers :
           Budgeted /\ alias(names, add_function, func)
    \/ \E names \in AliasArgs, add_function \in BOOLEAN, cmd \in Returned :
           Budgeted /\ aliasCommand(names, add_function, cmd)
    \/ \E func \in Handlers : Budgeted /\ option(func)
    \/ \E func \in Handlers : Budgeted /\ command(func)
    \/ run
    \/ pc = "loop" /\ \E line \in Lines : get_prompt(line)
    \/ get_prompt_raises
    \/ run_return
    \/ pc = "prompted" /\ \E result \in BeforeResults(command_line), stop \in BOOLEAN,
                               signal \in HookSignals :
           before_command(result, stop, signal)
    \/ pc = "before" /\ \E parse \in ParseOutcomes, stop \in BOOLEAN,
                             signal \in HandlerSignals :
           run_feed(parse, stop, signal)
    \/ \E stop \in BOOLEAN, signal \in HookSignals : after_command(stop, signal)
    \/ loop_again

Spec == Init /\ [][Next]_vars

\* The interpreter as shipped (the hooks of BetterCmd itself: before_command
\* returns its line, after_command does nothing), with handlers that may
\* register Commands while the loop runs. The application's own registration
\* calls are command, option and alias('f', add_function=False): the alias
\* that gives a handler the name a typed line can spell.
NextRegistering ==
    \/ \E func \in Handlers : Budgeted /\ alias(<<<<"f">>>>, FALSE, func)
    \/ \E func \in Handlers : Budgeted /\ option(func)
    \/ \E func \in Handlers : Budgeted /\ command(func)
    \/ run
    \/ pc = "loop" /\ \E line \in Lines : get_prompt(line)
    \/ run_return
    \/ before_command(command_line, FALSE, "none")
    \/ pc = "before" /\ \E parse \in ParseOutcomes, stop \in BOOLEAN,
                             signal \in HandlerSignals :
           run_feed(parse, stop, signal)
    \/ pc = "before" /\ \E parse \in ParseOutcomes, stop \in BOOLEAN,
                             signal \in HandlerSignals, reg \in Handlers :
           run_feed_registering(parse, stop, signal, reg)
    \/ after_command(FALSE, "none")
    \/ loop_again

SpecRegistering == Init /\ [][NextRegistering]_vars

\* ------------------------------------------------------------------ claims
\* Reading the record of the current iteration's calls.
HasCall(name) == \E i \in DOMAIN log : log[i][1] = name

RaisedIn(signal) == \E i \in DOMAIN log : log[i][1] = "raises" /\ log[i][2] = signal

\* feed has just finished (returned, or raised out of run) in this state.
FeedOver == pc \in {"fed", "raised"} /\ HasCall("feed") /\ ~HasCall("after_command")

\* The line that was fed.
FedText == log[CHOOSE i \in DOMAIN log : log[i][1] = "feed"][2]

IsDispatch(e) == e[1] \in {"empty_command", "default", "command"}

\* What feed invoked: hooks and Commands, in order.
FeedCalls == SelectSeq(log, IsDispatch)

\* The handler that name n is registered for.
HandlerOf(n) == cmds[commands[n]].func

\* C1 as stated: any two names of the registry registered for the same
\* handler map to the identical Command object.
C1_AsClaimed ==
    \A A \in DOMAIN commands, B \in DOMAIN commands :
        HandlerOf(A) = HandlerOf(B) => commands[A] = commands[B]

\* C1, amended: after any sequence of alias, option and command calls, any two
\* names of the registry registered for the same handler map to the identical
\* Command object, provided command was applied to that handler at most once
\* (each command call builds a new Command).
C1_OneCommandPerRegistration ==
    \A A \in DOMAIN commands, B \in DOMAIN commands :
        HandlerOf(A) = HandlerOf(B) /\ commandCalls[HandlerOf(A)] <= 1
            => commands[A] = commands[B]

\* Two different names of one handler, registered by its only command call.
C1_Witness ==
    \E A \in DOMAIN commands, B \in DOMAIN commands :
        /\ A # B
        /\ HandlerOf(A) = HandlerOf(B)
        /\ commandCalls[HandlerOf(A)] = 1
        /\ commands[A] = commands[B]

\* C2 as stated: a name of the registry is never re-bound from one handler's
\* Command to another handler's Command (the second registration fails with
\* DuplicateNameError instead).
C2_NeverRebound ==
    [][\A n \in DOMAIN commands : cmds'[commands'[n]].func = cmds[commands[n]].func]_vars

\* C3: whenever an alias application raises DuplicateNameError, the registry,
\* the set of claimed names and every pending alias list are what they were
\* before the call. (Every registration call sets exc, and only alias raises
\* DuplicateNameError.)
C3_FailedAliasChangesNothing ==
    [][exc' = "DuplicateNameError" => UNCHANGED <<commands, _all_aliases, _aliases>>]_vars

\* An alias application has failed after names were claimed.
C3_Witness == exc = "DuplicateNameError" /\ _all_aliases # {} /\ _aliases # <<>>

\* A line of blanks only (the empty line included).
Blank(text) == \A i \in DOMAIN text : text[i] = " "

\* C4 as stated: feed of an empty or whitespace-only line invokes empty_command
\* exactly once and nothing else, raises nothing of its own (only what the hook
\* raised can leave it) and, when it returns, returns None.
C4_BlankLineIsEmptyCommand ==
    FeedOver /\ Blank(FedText) =>
        /\ Len(FeedCalls) = 1
        /\ FeedCalls[1][1] = "empty_command"
        /\ exc \in {"none", "Error"}
        /\ (pc = "fed" => ret = None)

\* C5: feed of a line whose first token is no key of the registry invokes
\* default exactly once, with that token and the remaining tokens, invokes
\* nothing else and, when it returns, returns None; feed of a line whose first
\* token is a registered name invokes exactly that name's Command, once, and
\* returns it when it returns.
C5_Dispatch ==
    FeedOver /\ split(FedText) # <<>> =>
        LET parts == split(FedText)
            calls == FeedCalls
        IN  /\ Len(calls) = 1
            /\ IF parts[1] \in DOMAIN commands
               THEN /\ calls[1][1] = "command"
                    /\ calls[1][2] = commands[parts[1]]
                    /\ (pc = "fed" => ret = commands[parts[1]])
               ELSE /\ calls[1][1] = "default"
                    /\ calls[1][2] = parts[1]
                    /\ calls[1][4] = Tail(parts)
                    /\ (pc = "fed" => ret = None)

\* A registered Command was invoked with arguments and feed returned it.
C5_Witness ==
    /\ pc = "fed"
    /\ ret # None
    /\ Len(FeedCalls) = 1
    /\ FeedCalls[1][1] = "command"
    /\ FeedCalls[1][4] # <<>>

\* The position of the separator that ends the text of the token starting at
\* position i (one past the end of the line when the token ends the line).
RECURSIVE NameEnd(_, _, _, _)
NameEnd(text, i, inQuote, quoting) ==
    IF i > Len(text) THEN i
    ELSE IF text[i] = "\"" /\ quoting THEN NameEnd(text, i + 1, ~inQuote, quoting)
    ELSE IF text[i] = " " /\ ~inQuote THEN i
    ELSE NameEnd(text, i + 1, inQuote, quoting)

\* The line with the text of its first token and exactly one following
\* separator stripped from the front (quotes delimit the token where the line
\* is well quoted).
RestAfterName(text) ==
    LET start == CHOOSE i \in DOMAIN text : text[i] # " " /\ \A j \in 1..(i - 1) : text[j] = " "
        quoting == Shlex(text, 1, "ws", <<>>, FALSE, <<>>).ok
    IN  SliceFrom(text, NameEnd(text, start, FALSE, quoting))

\* C6 as stated: for every non-empty line fed, the argument string handed to
\* the Command (or to default) is the line with the command name and exactly
\* one following separator stripped from its front, and the argument tokens
\* are all tokens after the first.
C6_ArgsAreTheRestOfTheLine ==
    FeedOver /\ split(FedText) # <<>> /\ FeedCalls # <<>> =>
        /\ FeedCalls[1][3] = RestAfterName(FedText)
        /\ FeedCalls[1][4] = Tail(split(FedText))

\* C7: when the invocation of a registered Command raises CommandExit, feed
\* returns that Command normally; any other exception raised by the handler
\* leaves feed unchanged.
C7_CommandExitSwallowed ==
    FeedOver /\ HasCall("command") =>
        /\ RaisedIn("CommandExit") => pc = "fed" /\ exc = "none" /\ ret = FeedCalls[1][2]
        /\ RaisedIn("Error") => pc = "raised" /\ exc = "Error"

\* A Command's invocation raised CommandExit and feed returned.
C7_Witness == pc = "fed" /\ HasCall("command") /\ RaisedIn("CommandExit")

\* C8 as stated: the parser never terminates the process, and every text it
\* emits on the way to CommandExit is written to the interpreter's own stream.
C8_ParserWritesToInterpreter ==
    /\ exc # "SystemExit"
    /\ \A w \in written : w[1] = "self.stdout"

\* C9 as stated: when the loop has exited because running became false,
\* after_loop was invoked exactly once before run() returned.
C9_AfterLoopCalledOnce == pc = "returned" => after_loop_calls = 1

\* C10: run() sets running and is then at the loop's test; while running is
\* true the loop goes on to the prompt; once running is false the iteration
\* under way still goes through its remaining stages (feed, then after_command,
\* unless one of them raises), no line is requested from the prompt, and run()
\* returns from the loop's test; and run() can be called again after it
\* returned.
C10_LoopEndsAfterTheIteration ==
    [][/\ (~InRun /\ pc' = "loop" => running')
       /\ (pc = "loop" /\ running => pc' \in {"prompted", "raised"})
       /\ (pc = "loop" /\ ~running => pc' = "returned")
       /\ (pc = "prompted" => pc' \in {"before", "raised"})
       /\ (pc = "before" => pc' \in {"fed", "raised"})
       /\ (pc = "fed" => pc' \in {"after", "raised"} /\ HasCall("after_command")')
       /\ (pc = "after" => pc' = "loop")
       /\ (pc' = "returned" => pc = "loop" /\ ~running)
       /\ (pc = "returned" => pc' = "loop")]_vars

\* run() has returned after something cleared running.
C10_Witness == pc = "returned" /\ ~running

\* C11 as stated: every alias application with add_function true that succeeds
\* leaves the handler's own name as the first name of the handler's pending
\* alias list (the list command resolves, whose first name becomes the parser's
\* program name), whatever was applied to the handler before; and an
\* application with add_function false that does not list the own name does
\* not add it.
C11_OwnNameFirst ==
    [][\A func \in Handlers, names \in AliasArgs :
           /\ (alias(names, TRUE, func) /\ exc' = "none"
                   => _aliases'[func][1] = FuncName(func))
           /\ (/\ alias(names, FALSE, func) /\ exc' = "none"
               /\ FuncName(func) \notin Range(names)
               /\ FuncName(func) \notin Range(Get(_aliases, func, <<>>))
                   => FuncName(func) \notin Range(_aliases'[func]))]_vars

\* C12 as stated: every command(func) call returns a new Command bound to the
\* interpreter and to func, whose parser is none exactly when no option was
\* declared for func before the call, and registers it under every name of
\* func's pending alias list, or under exactly func's own name when no alias
\* was declared for func.
C12_CommandRegisters ==
    [][\A func \in Handlers :
           command(func) =>
               LET aliases == Get(_aliases, func, <<FuncName(func)>>)
               IN  /\ exc' = "none"
                   /\ ret' \in DOMAIN cmds' \ DOMAIN cmds
                   /\ cmds'[ret'].parent = "self"
                   /\ cmds'[ret'].func = func
                   /\ (cmds'[ret'].parser = NoParser <=> func \notin DOMAIN _parsers)
                   /\ \A n \in Range(aliases) : n \in DOMAIN commands' /\ commands'[n] = ret'
                   /\ (func \notin DOMAIN _aliases =>
                          {n \in DOMAIN commands' : commands'[n] = ret'} = {FuncName(func)})]_vars

\* C13 as stated: aliasing works in either declaration order. Whenever command
\* is applied to a handler that alias was applied to, every name of the
\* pending alias list resolves to the Command returned; and whenever alias is
\* applied to a Command that command returned, every requested name is in the
\* registry afterwards and resolves to that Command.
C13_EitherOrder ==
    [][/\ \A func \in Handlers :
              command(func) /\ exc' = "none" =>
                  \A n \in Range(Get(_aliases, func, <<>>)) :
                      n \in DOMAIN commands' /\ commands'[n] = ret'
       /\ \A names \in AliasArgs, add_function \in BOOLEAN, cmd \in DOMAIN cmds :
              aliasCommand(names, add_function, cmd) =>
                  \A n \in Range(names) : n \in DOMAIN commands' /\ commands'[n] = cmd]_vars

\* n stacked option decorators in the order the programmer wrote them, top to
\* bottom: decorators are applied bottom-up and the k-th applied is action k,
\* so the written order is n, n - 1, ..., 1.
WrittenOrder(n) == [i \in 1..n |-> n + 1 - i]

IsPositional(action) == action # 0

\* The actions that consume positional tokens, in the order the parser binds
\* them: those of parser._actions other than the built-in help option.
Positionals(actions) == SelectSeq(actions, IsPositional)

\* C14: for every handler with n >= 1 options declared, the parser's actions
\* are the built-in entry followed directly by the declared options in the
\* order they were written, so that the i-th positional token is bound to the
\* i-th option written.
C14_OptionsInWrittenOrder ==
    \A func \in DOMAIN _parsers :
        LET actions == _parsers[func].actions
            n == Len(actions) - 1
        IN  /\ n >= 1
            /\ actions = <<0>> \o WrittenOrder(n)
            /\ \A i \in 1..n : Positionals(actions)[i] = WrittenOrder(n)[i]

\* A handler with at least two options: the second one declared was moved in
\* front of the first.
C14_Witness ==
    \E func \in DOMAIN _parsers :
        /\ Len(_parsers[func].actions) >= 3
        /\ _parsers[func].actions[2] = Len(_parsers[func].actions) - 1

\* How often the current iteration called the named method.
Count(name) == Cardinality({i \in DOMAIN log : log[i][1] = name})

\* C15: in every iteration that runs to its end the four stages happened in
\* this order, each exactly once: a line was obtained from the prompt,
\* before_command was applied to that line, feed was called with exactly what
\* before_command returned, and after_command was called last, with exactly
\* what feed returned: the Command that feed invoked, or None when feed took
\* the empty_command or the default branch (empty input, unrecognised name).
C15_StagesInOrder ==
    pc = "after" =>
        LET n == Len(log)
        IN  /\ n >= 5
            /\ \A name \in {"get_prompt", "before_command", "feed", "after_command"} :
                   Count(name) = 1
            /\ log[1][1] = "get_prompt"
            /\ log[2][1] = "before_command" /\ log[2][2] = log[1][2]
            /\ log[3][1] = "feed" /\ log[3][2] = log[2][3]
            /\ log[n][1] = "after_command"
            /\ Len(FeedCalls) = 1
            /\ log[4] = FeedCalls[1]
            /\ (FeedCalls[1][1] = "empty_command" <=> FedText = <<>>)
            /\ log[n][2] = IF FeedCalls[1][1] = "command" THEN FeedCalls[1][2] ELSE None

\* An iteration ran to its end in which before_command changed the line and
\* feed matched a Command.
C15_Witness ==
    /\ pc = "after"
    /\ log[2][3] # log[2][2]
    /\ log[Len(log)][2] # None

\* The options a Command parses with, in order: the actions of the parser
\* object it holds (none for a Command without a parser). The Command holds
\* the very object that is the handler's entry of _parsers.
ParsesWith(c, parsers) == IF c.parser = NoParser THEN <<>> ELSE parsers[c.parser].actions

\* C16 as stated: once command has built and registered a Command, no later
\* call (an option call on the same handler in particular) changes the set or
\* the order of the options that Command parses with.
C16_ParserFrozen ==
    [][\A cmd \in DOMAIN cmds :
           ParsesWith(cmds'[cmd], _parsers') = ParsesWith(cmds[cmd], _parsers)]_vars

\* What a feed invoked, read from a record of calls.
CallsOf(calls) == SelectSeq(calls, IsDispatch)

\* C17: a registration made by a handler while the loop is running does not
\* affect the iteration in flight. Every feed of a name that is registered
\* when the feed starts invokes the Command the name had at that moment and,
\* when it returns, returns that same Command, whatever the handler
\* registered or re-bound meanwhile; after_command is passed the value feed
\* returned; and since each feed looks the name up in the registry as it is
\* when that feed starts, the changed registry is used from the next feed on.
C17_InFlightIterationUnaffected ==
    [][/\ (/\ pc = "before"
           /\ split(command_line) # <<>>
           /\ Lookup(split(command_line)[1]) # None)
              => /\ Len(CallsOf(log')) = 1
                 /\ CallsOf(log')[1][1] = "command"
                 /\ CallsOf(log')[1][2] = Lookup(split(command_line)[1])
                 /\ (pc' = "fed" => ret' = Lookup(split(command_line)[1]))
       /\ (pc = "fed" => log'[Len(log')] = <<"after_command", ret>>)]_vars

\* A feed has returned whose handler re-bound the very name that was fed: the
\* registry now holds another Command for it than the one feed returned.
C17_Witness ==
    /\ pc = "fed"
    /\ HasCall("self.command")
    /\ ret # None
    /\ commands[split(FedText)[1]] # ret

\* C18: after any sequence of alias applications, successful or failed (and
\* of option and command calls between them), the pending alias lists of
\* distinct handlers have no name in common, and the set of claimed names is
\* exactly the union of the pending alias lists.
C18_AliasListsPartitionClaimedNames ==
    /\ \A f1 \in DOMAIN _aliases, f2 \in DOMAIN _aliases :
           f1 # f2 => Range(_aliases[f1]) \cap Range(_aliases[f2]) = {}
    /\ _all_aliases = UNION {Range(_aliases[func]) : func \in DOMAIN _aliases}

\* Two handlers hold names, and the last application failed on a duplicate.
C18_Witness ==
    /\ exc = "DuplicateNameError"
    /\ \A func \in Handlers : func \in DOMAIN _aliases /\ _aliases[func] # <<>>

\* C19: the duplicate check does not distinguish handlers. Once a handler's
\* own name is claimed, every further alias application to that handler with
\* add_function true raises DuplicateNameError, and an application to it that
\* succeeds has add_function false and requests only names nobody has claimed.
C19_OwnNameClaimedOnce ==
    [][\A func \in Handlers, names \in AliasArgs :
           FuncName(func) \in _all_aliases =>
               /\ (exc' # "DuplicateNameError" => ~alias(names, TRUE, func))
               /\ \A add_function \in BOOLEAN :
                      exc' = "none" /\ alias(names, add_function, func) =>
                          ~add_function /\ Range(names) \cap _all_aliases = {}]_vars

\* A handler whose list starts with its own name got a further name, and an
\* application has raised DuplicateNameError since.
C19_Witness ==
    /\ exc = "DuplicateNameError"
    /\ \E func \in DOMAIN _aliases :
           /\ Len(_aliases[func]) >= 2
           /\ _aliases[func][1] = FuncName(func)

\* The errors that are not the command-exit signal.
Errors == {"Error", "EOFError", "IndexError"}

\* C20 as stated: when run() has been left by an error, the error is not the
\* command-exit signal, after_command was not invoked in that iteration
\* (unless it is the hook that raised) and the running flag is true; and when
\* run() has returned normally, running is false.
C20_RunningLeftTrue ==
    /\ pc = "raised" =>
           /\ exc \in Errors
           /\ HasCall("after_command") => log[Len(log) - 1][1] = "after_command"
           /\ running
    /\ pc = "returned" => ~running

\* C20, amended: an error other than the command-exit signal raised by a
\* handler, a hook or the prompt propagates out of run() as it is, and no
\* later stage of that iteration is invoked (after_command is not, unless it
\* is the hook that raised). run() does nothing to the running flag on the
\* way out: an error of the prompt leaves it true, and any other error leaves
\* it as the hooks and the handler of that iteration set it, never back to
\* true. run() returns normally only where running is false.
C20_ErrorPropagates ==
    [][/\ \A e \in Errors \ {"IndexError"} :
              log' # log /\ RaisedIn(e)' => pc' = "raised" /\ exc' = e
       /\ (pc' = "raised" /\ pc # "raised") =>
              /\ exc' \in Errors
              /\ HasCall("after_command")' => pc = "fed"
              /\ exc' = "EOFError" => running' = running
              /\ running' => running
              /\ UNCHANGED <<commands, cmds, _all_aliases, _aliases, _parsers>>
       /\ pc' = "returned" => ~running']_vars

\* A handler cleared running and then raised: the error is out of run() and
\* the flag is false.
C20_Witness ==
    /\ pc = "raised"
    /\ exc = "Error"
    /\ HasCall("func")
    /\ ~HasCall("after_command")
    /\ ~running
====
